---- MODULE Spec2Model ----
(***************************************************************************)
(* Model of src/src/cpp/compiler_detector.cpp: compiler detection          *)
(* (CompilerDetector), the CMake build driver (CMakeBuilder), the ABI      *)
(* record (ABIManager) and the extern "C" entry points.                    *)
(*                                                                         *)
(* A std::string is a sequence of one-character strings.  The result of a  *)
(* subprocess::run call is a record [threw, returncode, cout]: either the  *)
(* call raised an exception (threw) or it returned an exit code and the    *)
(* captured standard output.                                               *)
(***************************************************************************)
EXTENDS Integers, Sequences, FiniteSets, TLC

VARIABLES
    \* ---- CompilerDetector::detect_system_compiler, one call ----
    dpc,        \* "start" | "done" | "threw"
    inProbe,    \* outcome of `<compiler> --version` in test_compiler, per compiler
    inVersion,  \* outcome of the version query run by get_*_version
    dres,       \* the CompilerInfo returned (DefaultInfo before the call returns)
    \* ---- cpp_build_cmake / CMakeBuilder::build_package, per calling thread ----
    pc,         \* "idle" | "mkdir" | "configure" | "build" | "install" | "returned" | "escaped"
    pkg,        \* package_name of the call in progress
    ran,        \* CMake stages started by the call, in order
    codes,      \* exit codes the started stages returned, in order
    ret,        \* <<>> until the call returns, then <<return value>>
    lastRet,    \* per package: <<>> or <<return value of the latest completed call>>
    toolchain,  \* compiler family detect_system_compiler reports on this host
    \* ---- cpp_detect_compiler / cpp_get_abi_info, per calling thread ----
    fpc,        \* "idle" | "assign" | "writing" | "returned" | "read" | "escaped"
    fn,         \* which entry point the thread called
    own,        \* the string this thread's call computed (j.dump())
    stale,      \* the static buffer was assigned again after this thread's call returned
    seen,       \* what the thread read through the returned pointer
    buffer,     \* the two function-local statics: compiler_info and abi_info
    writers     \* per static: threads inside its operator= right now

varsDetect == <<dpc, inProbe, inVersion, dres>>
varsBuild == <<pc, pkg, ran, codes, ret, lastRet, toolchain>>
varsFfi == <<fpc, fn, own, stale, seen, buffer, writers>>
vars == <<dpc, inProbe, inVersion, dres, pc, pkg, ran, codes, ret, lastRet,
          toolchain, fpc, fn, own, stale, seen, buffer, writers>>

----------------------------------------------------------------------------
(* Bounds *)

\* exit codes of a subprocess range over 0..MaxExit
MaxExit == 2
\* captured output of a version query has at most MaxLen characters
MaxLen == 2
\* number of threads calling into the library concurrently
NThreads == 2
\* captured output of the version query inside cpp_detect_compiler and
\* cpp_get_abi_info has at most FfiMaxLen characters
FfiMaxLen == 0

Threads == 1..NThreads
ExitCodes == 0..MaxExit
\* characters of captured output: the separator find(" ") looks for, and one other
Chars == {" ", "1"}
\* package names passed to cpp_build_cmake
Keys == {"a", "b"}

RECURSIVE StringsUpTo(_)
StringsUpTo(n) ==
    IF n = 0 THEN {<<>>}
    ELSE LET shorter == StringsUpTo(n - 1)
         IN  shorter \cup {Append(s, c) : s \in {x \in shorter : Len(x) = n - 1}, c \in Chars}

Outputs == StringsUpTo(MaxLen)

\* what a subprocess::run call can do: raise, or return an exit code and output
Thrown == [threw |-> TRUE, returncode |-> 0, cout |-> <<>>]
RunResults == {Thrown} \cup
              {[threw |-> FALSE, returncode |-> c, cout |-> o] : c \in ExitCodes, o \in Outputs}
\* the same, output ignored (test_compiler and the CMake stages read only returncode)
RunCodes == {Thrown} \cup
            {[threw |-> FALSE, returncode |-> c, cout |-> <<>>] : c \in ExitCodes}

----------------------------------------------------------------------------
(* CompilerDetector *)

Compilers == <<"g++", "clang++", "cl.exe">>
CompilerNames == {Compilers[i] : i \in 1..Len(Compilers)}
CompilerType == {"GCC", "Clang", "MSVC", "Unknown"}

\* std::string() : the value of a std::string member nobody assigned
EmptyString == <<>>
\* the literal "unknown" returned by extract_version_from_output
StrUnknown == <<"u", "n", "k", "n", "o", "w", "n">>

\* CompilerInfo info; (version, path, stdlib default-constructed, type assigned
\* on every path of detect_system_compiler before it is read)
DefaultInfo == [type |-> "Unknown", version |-> EmptyString, path |-> "", stdlib |-> ""]

\* output.find(" ") : 0-based index of the first space, Len(output) + 1 for npos
Find(output) ==
    LET hits == {i \in 1..Len(output) : output[i] = " "}
    IN  IF hits = {} THEN Len(output) + 1
        ELSE (CHOOSE i \in hits : \A j \in hits : i <= j) - 1

extract_version_from_output(output) ==
    LET pos == Find(output)
    IN  IF pos # Len(output) + 1 THEN SubSeq(output, 1, pos) ELSE StrUnknown

\* test_compiler: try { return run(...).returncode == 0; } catch (...) { return false; }
test_compiler(r) == IF r.threw THEN FALSE ELSE r.returncode = 0

find_executable(name) == name

\* get_gcc_version / get_clang_version / get_msvc_version: run the compiler again
\* (no try block: an exception of that run leaves detect_system_compiler)
get_version(v) == extract_version_from_output(v.cout)

\* faulty variant: the version is queried before the compiler is identified
detect_version_first(probe, v) ==
    LET ver == get_version(v)
    IN  IF test_compiler(probe["g++"]) THEN
            [threw |-> v.threw,
             info |-> [type |-> "GCC", version |-> ver,
                       path |-> find_executable("g++"), stdlib |-> "libstdc++"]]
        ELSE IF test_compiler(probe["clang++"]) THEN
            [threw |-> v.threw,
             info |-> [type |-> "Clang", version |-> ver,
                       path |-> find_executable("clang++"), stdlib |-> "libc++"]]
        ELSE IF test_compiler(probe["cl.exe"]) THEN
            [threw |-> v.threw,
             info |-> [type |-> "MSVC", version |-> ver,
                       path |-> find_executable("cl.exe"), stdlib |-> "msvc_stl"]]
        ELSE [threw |-> FALSE, info |-> [DefaultInfo EXCEPT !.version = ver]]

\* faulty variant: clang++ is probed before g++
detect_clang_first(probe, v) ==
    IF test_compiler(probe["clang++"]) THEN
        [threw |-> v.threw,
         info |-> [type |-> "Clang", version |-> get_version(v),
                   path |-> find_executable("clang++"), stdlib |-> "libc++"]]
    ELSE IF test_compiler(probe["g++"]) THEN
        [threw |-> v.threw,
         info |-> [type |-> "GCC", version |-> get_version(v),
                   path |-> find_executable("g++"), stdlib |-> "libstdc++"]]
    ELSE IF test_compiler(probe["cl.exe"]) THEN
        [threw |-> v.threw,
         info |-> [type |-> "MSVC", version |-> get_version(v),
                   path |-> find_executable("cl.exe"), stdlib |-> "msvc_stl"]]
    ELSE [threw |-> FALSE, info |-> [DefaultInfo EXCEPT !.type = "Unknown"]]

\* detect_system_compiler. probe[c] is the outcome of `c --version` inside
\* test_compiler(c), v the outcome of the version query of the branch taken.
\* The result is [threw, info]: threw when the version query raised.
detect_system_compiler(probe, v) ==
    IF test_compiler(probe["g++"]) THEN
        [threw |-> v.threw,
         info |-> [type |-> "GCC", version |-> get_version(v),
                   path |-> find_executable("g++"), stdlib |-> "libstdc++"]]
    ELSE IF test_compiler(probe["clang++"]) THEN
        [threw |-> v.threw,
         info |-> [type |-> "Clang", version |-> get_version(v),
                   path |-> find_executable("clang++"), stdlib |-> "libc++"]]
    ELSE IF test_compiler(probe["cl.exe"]) THEN
        [threw |-> v.threw,
         info |-> [type |-> "MSVC", version |-> get_version(v),
                   path |-> find_executable("cl.exe"), stdlib |-> "msvc_stl"]]
    ELSE [threw |-> FALSE, info |-> [DefaultInfo EXCEPT !.type = "Unknown"]]

\* everything detect_system_compiler can return or raise, over all outcomes of
\* the subprocesses it runs
DetectResults ==
    {detect_system_compiler(p, v) : p \in [CompilerNames -> RunCodes], v \in RunResults}

----------------------------------------------------------------------------
(* One call of detect_system_compiler on inputs drawn at Init *)

DetectIdle ==
    /\ dpc = "start"
    /\ inProbe = [c \in CompilerNames |-> Thrown]
    /\ inVersion = Thrown
    /\ dres = DefaultInfo

InitDetect ==
    /\ dpc = "start"
    /\ inProbe \in [CompilerNames -> RunCodes]
    /\ inVersion \in RunResults
    /\ dres = DefaultInfo

DetectSystemCompiler ==
    /\ dpc = "start"
    /\ LET r == detect_system_compiler(inProbe, inVersion)
       IN  /\ dpc' = IF r.threw THEN "threw" ELSE "done"
           /\ dres' = IF r.threw THEN dres ELSE r.info
    /\ UNCHANGED <<inProbe, inVersion>>
    /\ UNCHANGED varsBuild
    /\ UNCHANGED varsFfi

----------------------------------------------------------------------------
(* CMakeBuilder::build_package behind cpp_build_cmake *)

Stages == <<"configure", "build", "install">>
InFlight(t) == pc[t] \in {"mkdir", "configure", "build", "install"}

BuildIdle ==
    /\ pc = [t \in Threads |-> "idle"]
    /\ pkg = [t \in Threads |-> ""]
    /\ ran = [t \in Threads |-> <<>>]
    /\ codes = [t \in Threads |-> <<>>]
    /\ ret = [t \in Threads |-> <<>>]
    /\ lastRet = [k \in Keys |-> <<>>]
    /\ toolchain = "Unknown"

\* the host keeps one toolchain during a run: whatever detect_system_compiler
\* reports on it
InitBuild ==
    /\ pc = [t \in Threads |-> "idle"]
    /\ pkg = [t \in Threads |-> ""]
    /\ ran = [t \in Threads |-> <<>>]
    /\ codes = [t \in Threads |-> <<>>]
    /\ ret = [t \in Threads |-> <<>>]
    /\ lastRet = [k \in Keys |-> <<>>]
    /\ toolchain \in {r.info.type : r \in DetectResults}

\* faulty variant: only exit codes above 1 count as failure
StageFailedAboveOne(r) == r.returncode > 1

\* if (x_result.returncode != 0) { ...; return 1; }
StageFailed(r) == r.returncode # 0

\* faulty variant: no try block around the body of build_package
OnExceptionUncaught == [pc |-> "escaped", ret |-> <<>>]

\* catch (const std::exception& e) { ...; return 1; }
OnException == [pc |-> "returned", ret |-> <<1>>]

\* return 1 after a failed stage, return 0 after the last one
OnFailure == [pc |-> "returned", ret |-> <<1>>]
OnSuccess == [pc |-> "returned", ret |-> <<0>>]

\* control leaves the stage at pc[t]: to the next stage, or out of the call
Leave(t, to) ==
    /\ pc' = [pc EXCEPT ![t] = to.pc]
    /\ ret' = [ret EXCEPT ![t] = to.ret]
    /\ lastRet' = IF to.pc = "returned"
                  THEN [lastRet EXCEPT ![pkg[t]] = to.ret]
                  ELSE lastRet

\* subprocess::run of one stage: the stage is started; an exception goes to
\* the catch block, a non-zero exit code returns 1, exit code 0 goes on
RunStage(t, stage, onZero) ==
    /\ pc[t] = stage
    /\ \E r \in RunCodes :
         /\ ran' = [ran EXCEPT ![t] = Append(@, stage)]
         /\ IF r.threw
            THEN /\ codes' = codes
                 /\ Leave(t, OnException)
            ELSE /\ codes' = [codes EXCEPT ![t] = Append(@, r.returncode)]
                 /\ IF StageFailed(r) THEN Leave(t, OnFailure) ELSE Leave(t, onZero)
    /\ UNCHANGED <<pkg, toolchain>>
    /\ UNCHANGED varsDetect
    /\ UNCHANGED varsFfi

\* cpp_build_cmake(package_name, name_len): builds the two strings and enters
\* build_package; nothing is consulted before the build starts
CppBuildCmake(t, k) ==
    /\ pc[t] \in {"idle", "returned"}
    /\ pc' = [pc EXCEPT ![t] = "mkdir"]
    /\ pkg' = [pkg EXCEPT ![t] = k]
    /\ ran' = [ran EXCEPT ![t] = <<>>]
    /\ codes' = [codes EXCEPT ![t] = <<>>]
    /\ ret' = [ret EXCEPT ![t] = <<>>]
    /\ UNCHANGED <<lastRet, toolchain>>
    /\ UNCHANGED varsDetect
    /\ UNCHANGED varsFfi

\* temp_directory_path() / "cpppm_build" / package_name; create_directories
CreateDirectories(t) ==
    /\ pc[t] = "mkdir"
    /\ \E threw \in BOOLEAN :
         IF threw THEN Leave(t, OnException)
         ELSE Leave(t, [pc |-> "configure", ret |-> <<>>])
    /\ UNCHANGED <<pkg, ran, codes, toolchain>>
    /\ UNCHANGED varsDetect
    /\ UNCHANGED varsFfi

\* auto configure_result = subprocess::run(configure_cmd);
Configure(t) ==
    /\ pc[t] = "configure"
    /\ RunStage(t, "configure", [pc |-> "build", ret |-> <<>>])

\* auto build_result = subprocess::run({"cmake", "--build", ...});
Build(t) ==
    /\ pc[t] = "build"
    /\ RunStage(t, "build", [pc |-> "install", ret |-> <<>>])

\* auto install_result = subprocess::run({"cmake", "--install", ...});
Install(t) ==
    /\ pc[t] = "install"
    /\ RunStage(t, "install", OnSuccess)

----------------------------------------------------------------------------
(* ABIManager and the two entry points that return a pointer into a static *)

EntryPoints == {"cpp_detect_compiler", "cpp_get_abi_info"}

\* a byte sequence that is no document any call produced
Garbage == <<>>

\* static_cast<int>(info.type): position in enum class CompilerType
TypeIndex(type) ==
    CASE type = "GCC" -> 0
      [] type = "Clang" -> 1
      [] type = "MSVC" -> 2
      [] OTHER -> 3

compiler_type_to_string(type) ==
    CASE type = "GCC" -> "gcc"
      [] type = "Clang" -> "clang"
      [] type = "MSVC" -> "msvc"
      [] OTHER -> "unknown"

\* the translation unit as built: predefined macros and the value of __cplusplus
\* (designated initializers in test_compiler need C++20)
TargetMacros == {"__x86_64__", "__linux__"}
CPlusPlus == 202002

cpu_arch(macros) ==
    IF "__x86_64__" \in macros THEN "x86_64"
    ELSE IF "__aarch64__" \in macros THEN "aarch64"
    ELSE IF "__arm__" \in macros THEN "arm"
    ELSE "unknown"

os_name(macros) ==
    IF "__linux__" \in macros THEN "linux"
    ELSE IF "__APPLE__" \in macros THEN "macos"
    ELSE IF "_WIN32" \in macros THEN "windows"
    ELSE "unknown"

debug_mode(macros) == "NDEBUG" \notin macros

cxx_standard(v) ==
    IF v >= 202002 THEN "c++20"
    ELSE IF v >= 201703 THEN "c++17"
    ELSE IF v >= 201402 THEN "c++14"
    ELSE IF v >= 201103 THEN "c++11"
    ELSE "c++98"

get_current_abi(info) ==
    [compiler |-> compiler_type_to_string(info.type),
     compiler_version |-> info.version,
     stdlib |-> info.stdlib,
     cpu_arch |-> cpu_arch(TargetMacros),
     os |-> os_name(TargetMacros),
     debug_mode |-> debug_mode(TargetMacros),
     cxx_standard |-> cxx_standard(CPlusPlus)]

\* nlohmann::json::dump(): the members in key order
abi_to_string(info) ==
    << <<"compiler", info.compiler>>,
       <<"compiler_version", info.compiler_version>>,
       <<"cpu_arch", info.cpu_arch>>,
       <<"cxx_standard", info.cxx_standard>>,
       <<"debug_mode", info.debug_mode>>,
       <<"os", info.os>>,
       <<"stdlib", info.stdlib>> >>

\* j.dump() in cpp_detect_compiler
compiler_info_to_string(info) ==
    << <<"path", info.path>>,
       <<"stdlib", info.stdlib>>,
       <<"type", TypeIndex(info.type)>>,
       <<"version", info.version>> >>

\* what the detection inside an entry point can return or raise, the captured
\* output of its version query kept to FfiMaxLen characters
FfiDetectResults ==
    {detect_system_compiler(p, v) :
        p \in [CompilerNames -> RunCodes],
        v \in {x \in RunResults : Len(x.cout) <= FfiMaxLen}}

FfiIdle ==
    /\ fpc = [t \in Threads |-> "idle"]
    /\ fn = [t \in Threads |-> "cpp_detect_compiler"]
    /\ own = [t \in Threads |-> Garbage]
    /\ stale = [t \in Threads |-> FALSE]
    /\ seen = [t \in Threads |-> Garbage]
    /\ buffer = [f \in EntryPoints |-> Garbage]
    /\ writers = [f \in EntryPoints |-> {}]

\* the body of an entry point up to the assignment to its static; the
\* detection's subprocess outcomes are inputs of the call.  Neither entry
\* point has a try block.
Enter(t, f, r, doc) ==
    /\ fpc[t] \in {"idle", "read"}
    /\ fn' = [fn EXCEPT ![t] = f]
    /\ seen' = [seen EXCEPT ![t] = Garbage]
    /\ stale' = [stale EXCEPT ![t] = FALSE]
    /\ IF r.threw
       THEN /\ fpc' = [fpc EXCEPT ![t] = "escaped"]
            /\ own' = [own EXCEPT ![t] = Garbage]
       ELSE /\ fpc' = [fpc EXCEPT ![t] = "assign"]
            /\ own' = [own EXCEPT ![t] = doc]
    /\ UNCHANGED <<buffer, writers>>
    /\ UNCHANGED varsDetect
    /\ UNCHANGED varsBuild

CppDetectCompiler(t) ==
    /\ fpc[t] \in {"idle", "read"}
    /\ \E r \in FfiDetectResults :
       Enter(t, "cpp_detect_compiler", r, compiler_info_to_string(r.info))

CppGetAbiInfo(t) ==
    /\ fpc[t] \in {"idle", "read"}
    /\ \E r \in FfiDetectResults :
       Enter(t, "cpp_get_abi_info", r, abi_to_string(get_current_abi(r.info)))

\* compiler_info = j.dump(); / abi_info = ...; std::string::operator= begins.
\* Pointers handed out earlier for this static are invalidated, and an
\* assignment already running on it is raced.
AssignBegin(t) ==
    /\ fpc[t] = "assign"
    /\ fpc' = [fpc EXCEPT ![t] = "writing"]
    /\ writers' = [writers EXCEPT ![fn[t]] = @ \cup {t}]
    /\ stale' = [u \in Threads |->
                   IF u = t THEN writers[fn[t]] # {}
                   ELSE IF fn[u] = fn[t] /\ fpc[u] \in {"writing", "returned"} THEN TRUE
                   ELSE stale[u]]
    /\ UNCHANGED <<fn, own, seen, buffer>>
    /\ UNCHANGED varsDetect
    /\ UNCHANGED varsBuild

\* operator= ends and c_str() is returned.  Unraced, the static holds this
\* call's document; raced, it holds this document, what was there, or neither.
AssignEnd(t) ==
    /\ fpc[t] = "writing"
    /\ fpc' = [fpc EXCEPT ![t] = "returned"]
    /\ writers' = [writers EXCEPT ![fn[t]] = @ \ {t}]
    /\ \E content \in (IF stale[t] THEN {own[t], buffer[fn[t]], Garbage} ELSE {own[t]}) :
         buffer' = [buffer EXCEPT ![fn[t]] = content]
    /\ UNCHANGED <<fn, own, seen, stale>>
    /\ UNCHANGED varsDetect
    /\ UNCHANGED varsBuild

\* the caller reads the string behind the returned pointer.  A pointer that
\* was invalidated reads the static's present content, the bytes of the old
\* block, or neither.
ReadResult(t) ==
    /\ fpc[t] = "returned"
    /\ fpc' = [fpc EXCEPT ![t] = "read"]
    /\ \E content \in (IF stale[t] THEN {buffer[fn[t]], own[t], Garbage}
                                   ELSE {buffer[fn[t]]}) :
         seen' = [seen EXCEPT ![t] = content]
    /\ UNCHANGED <<fn, own, stale, buffer, writers>>
    /\ UNCHANGED varsDetect
    /\ UNCHANGED varsBuild

----------------------------------------------------------------------------
(* Specifications *)

Init == InitBuild /\ DetectIdle /\ FfiIdle

Next ==
    \E t \in Threads :
       \/ \E k \in Keys : CppBuildCmake(t, k)
       \/ CreateDirectories(t)
       \/ Configure(t)
       \/ Build(t)
       \/ Install(t)

Spec == Init /\ [][Next]_vars

InitDetectOnly == InitDetect /\ BuildIdle /\ FfiIdle

NextDetect == DetectSystemCompiler

SpecDetect == InitDetectOnly /\ [][NextDetect]_vars

InitFfi == FfiIdle /\ DetectIdle /\ BuildIdle

NextFfi ==
    \E t \in Threads :
       \/ CppDetectCompiler(t)
       \/ CppGetAbiInfo(t)
       \/ AssignBegin(t)
       \/ AssignEnd(t)
       \/ ReadResult(t)

SpecFfi == InitFfi /\ [][NextFfi]_vars

----------------------------------------------------------------------------
(* Properties *)

Usable(c) == ~inProbe[c].threw /\ inProbe[c].returncode = 0
KnownFamilies == {"GCC", "Clang", "MSVC"}

\* C1: at most one build per key is in flight: no two concurrent calls of
\* cpp_build_cmake with the same package name are both inside build_package.
C1_AtMostOneBuildPerKey ==
    \A t, u \in Threads :
       (t # u /\ InFlight(t) /\ InFlight(u)) => pkg[t] # pkg[u]

\* C4: a ready build is not rebuilt: while the latest completed build of a
\* package succeeded (its entry is Ready), a call for that package does not
\* enter build_package again.
C4_ReadyNotRebuilt ==
    [][\A t \in Threads :
          (~InFlight(t) /\ pc'[t] = "mkdir") => lastRet[pkg'[t]] # <<0>>]_vars

\* C5: no build is attempted against an unidentified toolchain: on a host whose
\* detected compiler family is Unknown no call gets as far as a CMake stage.
C5_NoBuildOnUnknownToolchain ==
    toolchain = "Unknown" =>
       \A t \in Threads : ran[t] = <<>> /\ pc[t] \notin {"configure", "build", "install"}

\* C6: the stages run in the order configure, build, install; a stage is
\* started only after every earlier stage returned exit code 0; the call
\* returns 0 exactly when all three stages returned 0, and returns 1 with no
\* later stage run when a stage returned a non-zero exit code.
C6_StagesInOrder ==
    \A t \in Threads :
       /\ Len(ran[t]) <= Len(Stages)
       /\ ran[t] = SubSeq(Stages, 1, Len(ran[t]))
       /\ \A i \in 1..(Len(ran[t]) - 1) : i <= Len(codes[t]) /\ codes[t][i] = 0
       /\ pc[t] = "returned" =>
            /\ (ret[t] = <<0>>) <=> (codes[t] = <<0, 0, 0>>)
            /\ \A i \in 1..Len(codes[t]) :
                 codes[t][i] # 0 => (ret[t] = <<1>> /\ Len(ran[t]) = i)

\* a call returned after its build stage gave a non-zero exit code
C6_Witness ==
    \E t \in Threads :
       /\ pc[t] = "returned"
       /\ Len(codes[t]) = 2
       /\ codes[t][2] # 0
       /\ ret[t] = <<1>>

\* C7: in a record returned by detect_system_compiler, family Unknown implies
\* version, path and stdlib are unset (empty), and a version that is set
\* implies the family is GCC, Clang or MSVC.
C7_UnknownHasNoVersion ==
    dpc = "done" =>
       /\ dres.type = "Unknown" =>
            (dres.version = EmptyString /\ dres.path = "" /\ dres.stdlib = "")
       /\ dres.version # EmptyString => dres.type \in KnownFamilies

\* detection returned Unknown although the version query would have produced output
C7_Witness ==
    /\ dpc = "done"
    /\ dres.type = "Unknown"
    /\ ~inVersion.threw
    /\ inVersion.cout # <<>>

\* C8: the string a call of cpp_detect_compiler or cpp_get_abi_info returned is
\* not changed by another call: a caller reading it reads its own call's result.
C8_CallerReadsOwnResult ==
    \A t \in Threads : fpc[t] = "read" => seen[t] = own[t]

\* C9: detection reports the first usable compiler in the order g++, clang++,
\* cl.exe, with its stdlib, and Unknown exactly when none is usable; a probe
\* that throws counts as not usable and does not end detection.
C9_FirstUsableCompiler ==
    /\ dpc = "done" =>
         /\ Usable("g++") => (dres.type = "GCC" /\ dres.stdlib = "libstdc++")
         /\ (~Usable("g++") /\ Usable("clang++")) =>
               (dres.type = "Clang" /\ dres.stdlib = "libc++")
         /\ (~Usable("g++") /\ ~Usable("clang++") /\ Usable("cl.exe")) =>
               (dres.type = "MSVC" /\ dres.stdlib = "msvc_stl")
         /\ (dres.type = "Unknown") <=> (\A c \in CompilerNames : ~Usable(c))
    /\ dpc = "threw" => (inVersion.threw /\ \E c \in CompilerNames : Usable(c))

\* the g++ probe threw, clang++ and cl.exe are usable, and Clang is reported
C9_Witness ==
    /\ dpc = "done"
    /\ inProbe["g++"].threw
    /\ Usable("clang++")
    /\ Usable("cl.exe")
    /\ dres.type = "Clang"

====
